---- MODULE Spec2Model ----
(***************************************************************************)
(* Model of cards_llm.py: the CardPromptApp window with its three tabs     *)
(* (info validation, card creation, card analysis), the prompt building    *)
(* by chained str.replace, the worker thread started by _run_llm_async     *)
(* and the on_done callback it posts to the Tk event loop.                 *)
(*                                                                         *)
(* Text is a sequence of symbols.  A symbol is a brace, an angle bracket,  *)
(* a blank, a whole identifier (a placeholder name, a tag name) or a       *)
(* letter, so that a placeholder token such as {Card_modelo} is the three  *)
(* symbols "{", "Card_modelo", "}" and str.replace, str.strip and the      *)
(* regular expression of _extract_tag_content work on subsequences.        *)
(***************************************************************************)
EXTENDS Integers, Sequences, FiniteSets, TLC

\* ------------------------------------------------------------------ bounds
\* Accepted submissions in one behaviour.
MaxSubmits == 2
\* Pieces (a placeholder token or a single symbol) of a skeleton in PromptSpec.
MaxPieces == 3
\* Pieces (a tag or a single symbol) of a reply text in ExtractSpec.
MaxTextPieces == 4
\* Items (a block, a separator or a stray tag) of a template file in LoadSpec.
MaxItems == 3

\* ------------------------------------------------------------------ text
Tabs == {"info", "create", "analyse"}

\* The placeholder tokens of the prompt skeletons.
TokCardModelo == <<"{", "Card_modelo", "}">>
TokUserInfo == <<"{", "informacoes_fornecidas_pelo_usuario", "}">>
TokCardAnalise == <<"{", "Card_para_analise", "}">>
TokAdicionais == <<"{", "informacoes_adicionais", "}">>

\* Whitespace symbols, as str.strip and \s see them.
Blank == {" ", "\n"}

\* str.strip(): drops the leading and the trailing whitespace.
RECURSIVE LStrip(_)
LStrip(s) ==
    IF s # <<>> /\ Head(s) \in Blank THEN LStrip(Tail(s)) ELSE s

RECURSIVE RStrip(_)
RStrip(s) ==
    IF s # <<>> /\ s[Len(s)] \in Blank THEN RStrip(SubSeq(s, 1, Len(s) - 1)) ELSE s

Strip(s) == RStrip(LStrip(s))

\* Mutant: str.replace(old, new, 1), only the first occurrence is replaced.
Replace_first_only(s, old, new) ==
    IF \E i \in 1..(Len(s) - Len(old) + 1) : SubSeq(s, i, i + Len(old) - 1) = old
    THEN LET i == CHOOSE k \in 1..(Len(s) - Len(old) + 1) :
                    /\ SubSeq(s, k, k + Len(old) - 1) = old
                    /\ \A j \in 1..(k - 1) : SubSeq(s, j, j + Len(old) - 1) # old
         IN  SubSeq(s, 1, i - 1) \o new \o SubSeq(s, i + Len(old), Len(s))
    ELSE s

\* str.replace(old, new): the occurrences of old are found left to right,
\* without overlap, in the ORIGINAL string; what is inserted is not scanned.
RECURSIVE Replace(_, _, _)
Replace(s, old, new) ==
    IF Len(s) < Len(old) THEN s
    ELSE IF SubSeq(s, 1, Len(old)) = old
         THEN new \o Replace(SubSeq(s, Len(old) + 1, Len(s)), old, new)
         ELSE <<Head(s)>> \o Replace(Tail(s), old, new)

\* ------------------------------------------------------------------ state
VARIABLES
    templates,          \* self.templates: card type -> template body
    models,             \* validation_model / creation_model / analisys_model, by tab
    prompts,            \* info_validation_prompt / creation_prompt / analisys_prompt, by tab
    api_key,            \* whether os.getenv finds OPENROUTER_API_KEY or API_KEY
    additional_info,    \* self.additional_info
    _llm_running,       \* self._llm_running
    buttons,            \* state of the three generate buttons
    status_var,         \* self.status_var
    output,             \* content of output_text_info / _create / _analyse, by tab
    dialog,             \* title of the last message box shown
    threads,            \* the worker threads that are alive
    after_queue,        \* on_done callbacks posted by self.after(0, ...), not yet run
    http_requests,      \* number of requests.post calls made
    accepted,           \* number of submissions _run_llm_async accepted; they are 1..accepted
    delivered,          \* delivered[i]: how many times on_done ran for submission i
    last_done,          \* by tab: outcome of the last on_done of a call from that tab
    p_phase, p_tab, p_skel, p_vals, p_built, p_again,  \* prompt building on its own
    x_phase, x_tag, x_text, x_out,                     \* _extract_tag_content on its own
    l_phase, l_exists, l_items, l_result,              \* load_templates on its own
    s_pc,               \* where main stands
    s_env,              \* os.environ after load_dotenv
    s_file,             \* the templates file
    s_prompt_files,     \* whether the three prompt files exist
    s_locals,           \* templates and the three models, locals of main
    s_window            \* the window of CardPromptApp: none, created, shown

appVars ==
    <<templates, models, prompts, api_key, additional_info, _llm_running, buttons,
      status_var, output, dialog, threads, after_queue, http_requests, accepted,
      delivered, last_done>>

promptVars == <<p_phase, p_tab, p_skel, p_vals, p_built, p_again>>

extractVars == <<x_phase, x_tag, x_text, x_out>>

\* The variables of the functions checked on their own.
loadVars == <<l_phase, l_exists, l_items, l_result>>

startVars == <<s_pc, s_env, s_file, s_prompt_files, s_locals, s_window>>

pureVars == <<promptVars, extractVars, loadVars, startVars>>

vars == <<appVars, pureVars>>

\* ------------------------------------------------------------------ helpers of the handlers
\* The placeholder each workflow replaces second.
SecondToken(tab) == IF tab = "analyse" THEN TokCardAnalise ELSE TokUserInfo

\* The tag each workflow asks the model to wrap its answer in.
TagName(tab) ==
    CASE tab = "info" -> "info_validacao"
      [] tab = "create" -> "card"
      [] tab = "analyse" -> "analise"

BusyMessage(tab) ==
    CASE tab = "info" -> "Analisando informacoes com o LLM..."
      [] tab = "create" -> "Gerando card com o LLM..."
      [] tab = "analyse" -> "Analisando card com o LLM..."

\* prompt.replace("{informacoes_adicionais}", self.additional_info or "")
_apply_common_replacements(prompt, info) == Replace(prompt, TokAdicionais, info)

\* The three chained replacements of a generate handler.
BuildPrompt(tab, skeleton, template, text, info) ==
    _apply_common_replacements(
        Replace(Replace(skeleton, TokCardModelo, template), SecondToken(tab), text),
        info)

\* self.templates.get(card_type.strip()), None for an empty or unknown type.
_get_template_for_type(store, card_type) ==
    LET name == Strip(card_type)
    IN  IF name = <<>> THEN [is_none |-> TRUE, value |-> <<>>]
        ELSE IF name \in DOMAIN store THEN [is_none |-> FALSE, value |-> store[name]]
        ELSE [is_none |-> TRUE, value |-> <<>>]

\* Python's "not template".
NotTemplate(template) == template.is_none \/ template.value = <<>>

\* re.IGNORECASE on the identifiers the replies use.
CaseFold(c) ==
    CASE c \in {"CARD", "Card"} -> "card"
      [] c \in {"ANALISE", "Analise"} -> "analise"
      [] c \in {"INFO_VALIDACAO", "Info_Validacao"} -> "info_validacao"
      [] OTHER -> c

\* \s*: the first position from i on that holds no whitespace.
RECURSIVE SkipBlanks(_, _)
SkipBlanks(text, i) ==
    IF i <= Len(text) /\ text[i] \in Blank THEN SkipBlanks(text, i + 1) ELSE i

\* <\s*tag\s*> (opener "<") or </\s*tag\s*> (opener "</") matched at position i:
\* the position after the match, 0 when there is no match at i.
MatchTag(text, i, opener, tag_name) ==
    IF i > Len(text) \/ text[i] # opener THEN 0
    ELSE LET j == SkipBlanks(text, i + 1)
         IN  IF j > Len(text) \/ CaseFold(text[j]) # CaseFold(tag_name) THEN 0
             ELSE LET k == SkipBlanks(text, j + 1)
                  IN  IF k > Len(text) \/ text[k] # ">" THEN 0 ELSE k + 1

SetMin(S) == CHOOSE x \in S : \A y \in S : x <= y

\* Mutant: the group is greedy, (.*) instead of (.*?), so the match runs to
\* the last closing tag.
_extract_tag_content_greedy(text, tag_name) ==
    LET Closes(i) ==
            {j \in MatchTag(text, i, "<", tag_name)..Len(text) :
                MatchTag(text, j, "</", tag_name) # 0}
        Opens ==
            {i \in 1..Len(text) :
                MatchTag(text, i, "<", tag_name) # 0 /\ Closes(i) # {}}
    IN  IF Opens = {} THEN Strip(text)
        ELSE LET i == SetMin(Opens)
                 last == CHOOSE j \in Closes(i) : \A k \in Closes(i) : k <= j
             IN  Strip(SubSeq(text, MatchTag(text, i, "<", tag_name), last - 1))

\* re.search(rf"<\s*{tag}\s*>(.*?)</\s*{tag}\s*>", text, DOTALL | IGNORECASE):
\* the leftmost opening tag that has a closing tag after it, and the first
\* closing tag after it; group(1).strip(), or text.strip() without a match.
_extract_tag_content(text, tag_name) ==
    LET Closes(i) ==
            {j \in MatchTag(text, i, "<", tag_name)..Len(text) :
                MatchTag(text, j, "</", tag_name) # 0}
        Opens ==
            {i \in 1..Len(text) :
                MatchTag(text, i, "<", tag_name) # 0 /\ Closes(i) # {}}
    IN  IF Opens = {} THEN Strip(text)
        ELSE LET i == SetMin(Opens)
             IN  Strip(SubSeq(text, MatchTag(text, i, "<", tag_name), SetMin(Closes(i)) - 1))

\* \w of the template pattern: a symbol that is a word.
IsWord(c) == c \notin {"<", "</", ">", " ", "\n", "{", "}"}

\* The last position of the run of words that starts at position i, i - 1
\* when there is none.
RECURSIVE WordRun(_, _)
WordRun(text, i) ==
    IF i <= Len(text) /\ IsWord(text[i]) THEN WordRun(text, i + 1) ELSE i - 1

\* The positions from position from on where </name> stands.
ClosersOf(text, name, from) ==
    {j \in from..Len(text) :
        /\ text[j] = "</"
        /\ j + Len(name) + 1 <= Len(text)
        /\ SubSeq(text, j + 1, j + Len(name)) = name
        /\ text[j + Len(name) + 1] = ">"}

\* A match of <(\w+)>(.*?)</\1> starting at position i: the name, the body
\* up to the first closing tag of that name, and the position after it.
MatchBlock(text, i) ==
    LET e == WordRun(text, i + 1)
        name == SubSeq(text, i + 1, e)
        closers == ClosersOf(text, name, e + 2)
        none == [found |-> FALSE, name |-> <<>>, body |-> <<>>, next |-> i + 1]
    IN  IF text[i] # "<" \/ e < i + 1 \/ e + 1 > Len(text) THEN none
        ELSE IF text[e + 1] # ">" \/ closers = {} THEN none
        ELSE LET j == SetMin(closers)
             IN  [found |-> TRUE, name |-> name, body |-> SubSeq(text, e + 2, j - 1),
                  next |-> j + Len(name) + 2]

\* Mutant: a name already in the dictionary keeps its first body.
StoreTemplate_first_wins(acc, tag_name, content) ==
    [n \in DOMAIN acc \cup {tag_name} |-> IF n \in DOMAIN acc THEN acc[n] ELSE content]

\* templates[tag_name] = content
StoreTemplate(acc, tag_name, content) ==
    [n \in DOMAIN acc \cup {tag_name} |-> IF n = tag_name THEN content ELSE acc[n]]

\* The loop over pattern.finditer(text): the matches from left to right,
\* none overlapping another, each stored under its name.
RECURSIVE ScanTemplates(_, _, _)
ScanTemplates(text, i, acc) ==
    IF i > Len(text) THEN acc
    ELSE LET m == MatchBlock(text, i)
         IN  IF ~m.found THEN ScanTemplates(text, i + 1, acc)
             ELSE ScanTemplates(text, m.next,
                    IF Strip(m.name) # <<>>
                    THEN StoreTemplate(acc, Strip(m.name), Strip(m.body))
                    ELSE acc)

\* load_templates: the dictionary, or the exception raised for a missing
\* file or for a file without a block.
load_templates(exists, text) ==
    IF ~exists THEN [error |-> "FileNotFoundError", templates |-> <<>>]
    ELSE LET found == ScanTemplates(text, 1, <<>>)
         IN  IF DOMAIN found = {} THEN [error |-> "ValueError", templates |-> <<>>]
             ELSE [error |-> "None", templates |-> found]

\* str(exc) of the failures of _call_llm.
ErrConfig == "Chave de API do OpenRouter nao configurada."
ErrNetwork == "requests: HTTPError"
ErrProtocol == "Resposta invalida do modelo OpenRouter."

\* The upper-case spelling of a tag name, as a reply may write it.
UpperCase(tag_name) ==
    CASE tag_name = "card" -> "CARD"
      [] tag_name = "analise" -> "ANALISE"
      [] tag_name = "info_validacao" -> "INFO_VALIDACAO"

\* What the HTTP request of _call_llm can end in: an exception of
\* requests.post / raise_for_status, a body without choices[0].message.content,
\* or a body with that content.
Replies(tag_name) ==
    {[kind |-> "network", content |-> <<>>], [kind |-> "protocol", content |-> <<>>]}
    \cup {[kind |-> "ok", content |-> c] :
            c \in {<<"a", " ", "<", UpperCase(tag_name), ">", " ", "x", "</", tag_name, ">", "b">>,
                   <<" ", "z", "\n">>}}

\* The rest of _call_llm once the request has ended, then the extraction:
\* the (error, llm_clean) pair the worker hands to on_done.
WorkerResult(reply, tag_name) ==
    CASE reply.kind = "network" -> [error |-> ErrNetwork, llm_clean |-> <<>>]
      [] reply.kind = "protocol" -> [error |-> ErrProtocol, llm_clean |-> <<>>]
      [] reply.kind = "ok" ->
            [error |-> "None",
             llm_clean |-> _extract_tag_content(Strip(reply.content), tag_name)]

\* ------------------------------------------------------------------ inputs
TypeNames == {<<"bug">>}

\* Template bodies load_templates can store: group(2).strip() of a block, the
\* empty body of <bug></bug> included.
TemplateBodies == {<<>>, <<"T">>}

\* The dictionaries load_templates can return: never empty.
TemplateStores == UNION {[K -> TemplateBodies] : K \in (SUBSET TypeNames) \ {{}}}

\* What a card-type StringVar can hold when a handler reads it.
CardTypeInputs == {<<>>, <<" ">>, <<"bug">>, <<"bug", " ">>, <<"chore">>}

\* What Text.get("1.0", END) of an input area can return: the text and the
\* newline Tk appends.
InputTexts == {<<"\n">>, <<"u", "\n">>}

\* What the file dialog and the read of load_additional_info can end in.
FilePicks ==
    {[kind |-> "cancel", content |-> <<>>], [kind |-> "unreadable", content |-> <<>>],
     [kind |-> "text", content |-> <<"i", "\n">>]}

\* The prompt skeleton files under resources/.
SkeletonFile(tab) ==
    <<"p">> \o TokCardModelo \o <<"\n">> \o SecondToken(tab) \o <<"\n">> \o TokAdicionais

configVars == <<templates, models, prompts, api_key>>
historyVars == <<accepted, delivered, last_done>>

\* ------------------------------------------------------------------ the UI thread
\* _set_busy: the status text and the three generate buttons (the timer and
\* the progress bar it also drives hold no state the handlers read).
_set_busy(busy, message) ==
    /\ status_var' = message
    /\ buttons' = IF busy THEN "disabled" ELSE "normal"

\* _run_llm_async with a call in flight: the notice and nothing else.
ShowBusyNotice ==
    /\ dialog' = "Aguarde"
    /\ UNCHANGED <<configVars, additional_info, _llm_running, buttons, status_var, output,
                   threads, after_queue, http_requests, historyVars>>

\* Mutant: the output area is not cleared when a submission is accepted.
StartWorker_keeps_output(prompt, model_name, tag_name, output_widget, busy_message) ==
    /\ accepted < MaxSubmits
    /\ _llm_running' = TRUE
    /\ _set_busy(TRUE, busy_message)
    /\ threads' = threads \cup
            {[id |-> accepted + 1, output_widget |-> output_widget, prompt |-> prompt,
              model_name |-> model_name, tag_name |-> tag_name, pc |-> "start",
              payload |-> <<>>]}
    /\ accepted' = accepted + 1
    /\ delivered' = Append(delivered, 0)
    /\ UNCHANGED <<configVars, additional_info, output, dialog, after_queue, http_requests,
                   last_done>>

\* _run_llm_async with no call in flight: clear the output area, set the
\* flag, disable the buttons, start the worker thread.
StartWorker(prompt, model_name, tag_name, output_widget, busy_message) ==
    /\ accepted < MaxSubmits
    /\ output' = [output EXCEPT ![output_widget] = <<>>]
    /\ _llm_running' = TRUE
    /\ _set_busy(TRUE, busy_message)
    /\ threads' = threads \cup
            {[id |-> accepted + 1, output_widget |-> output_widget, prompt |-> prompt,
              model_name |-> model_name, tag_name |-> tag_name, pc |-> "start",
              payload |-> <<>>]}
    /\ accepted' = accepted + 1
    /\ delivered' = Append(delivered, 0)
    /\ UNCHANGED <<configVars, additional_info, dialog, after_queue, http_requests, last_done>>

\* Mutant: the busy check is missing.
_run_llm_async_unguarded(prompt, model_name, tag_name, output_widget, busy_message) ==
    StartWorker(prompt, model_name, tag_name, output_widget, busy_message)

\* Mutant: the output area is cleared before the busy check instead of after it.
_run_llm_async_clears_first(prompt, model_name, tag_name, output_widget, busy_message) ==
    IF _llm_running
    THEN /\ dialog' = "Aguarde"
         /\ output' = [output EXCEPT ![output_widget] = <<>>]
         /\ UNCHANGED <<configVars, additional_info, _llm_running, buttons, status_var,
                        threads, after_queue, http_requests, historyVars>>
    ELSE StartWorker(prompt, model_name, tag_name, output_widget, busy_message)

_run_llm_async(prompt, model_name, tag_name, output_widget, busy_message) ==
    IF _llm_running
    THEN ShowBusyNotice
    ELSE StartWorker(prompt, model_name, tag_name, output_widget, busy_message)

\* A handler that returns after a message box.
Refuse(title) ==
    /\ dialog' = title
    /\ UNCHANGED <<configVars, additional_info, _llm_running, buttons, status_var, output,
                   threads, after_queue, http_requests, historyVars>>

\* The body the three generate handlers share: the two refusals, the prompt,
\* the submission.
Generate(tab, card_type, text) ==
    LET template == _get_template_for_type(templates, Strip(card_type))
    IN  IF Strip(card_type) = <<>> THEN Refuse("Tipo nao selecionado")
        ELSE IF NotTemplate(template) THEN Refuse("Template nao encontrado")
        ELSE _run_llm_async(
                BuildPrompt(tab, prompts[tab], template.value, Strip(text), additional_info),
                models[tab], TagName(tab), tab, BusyMessage(tab))

generate_info_validation_prompt(card_type, user_info) == Generate("info", card_type, user_info)

generate_creation_prompt(card_type, user_info) == Generate("create", card_type, user_info)

generate_analisys_prompt(card_type, card_to_analyse) ==
    Generate("analyse", card_type, card_to_analyse)

\* load_additional_info: a cancelled dialog changes nothing, an unreadable
\* file ends in an error box, a read file replaces the text.
load_additional_info(pick) ==
    /\ CASE pick.kind = "cancel" -> UNCHANGED <<additional_info, dialog>>
         [] pick.kind = "unreadable" ->
                /\ dialog' = "Erro ao carregar arquivo de informacoes de projeto"
                /\ UNCHANGED additional_info
         [] pick.kind = "text" ->
                /\ additional_info' = Strip(pick.content)
                /\ UNCHANGED dialog
    /\ UNCHANGED <<configVars, _llm_running, buttons, status_var, output, threads,
                   after_queue, http_requests, historyVars>>

\* Mutant: on_done returns after the error box, leaving the busy state set.
on_done_error_returns ==
    /\ after_queue # <<>>
    /\ LET cb == Head(after_queue)
       IN  /\ IF cb.error \notin {"None", ""}
              THEN /\ dialog' = "Erro ao chamar LLM"
                   /\ UNCHANGED <<output, status_var, buttons, _llm_running>>
              ELSE /\ output' = [output EXCEPT ![cb.output_widget] = cb.llm_clean]
                   /\ _set_busy(FALSE, "Pronto.")
                   /\ _llm_running' = FALSE
                   /\ UNCHANGED dialog
           /\ after_queue' = Tail(after_queue)
           /\ delivered' = [delivered EXCEPT ![cb.id] = @ + 1]
           /\ last_done' = [last_done EXCEPT ![cb.output_widget] =
                                [error |-> cb.error, llm_clean |-> cb.llm_clean]]
    /\ UNCHANGED <<configVars, additional_info, threads, http_requests, accepted>>

\* Mutant: on_done writes the result to the creation tab's output area,
\* whichever tab submitted the call.
on_done_wrong_widget ==
    /\ after_queue # <<>>
    /\ LET cb == Head(after_queue)
       IN  /\ IF cb.error \notin {"None", ""}
              THEN dialog' = "Erro ao chamar LLM" /\ UNCHANGED output
              ELSE output' = [output EXCEPT !["create"] = cb.llm_clean]
                   /\ UNCHANGED dialog
           /\ _set_busy(FALSE, "Pronto.")
           /\ _llm_running' = FALSE
           /\ after_queue' = Tail(after_queue)
           /\ delivered' = [delivered EXCEPT ![cb.id] = @ + 1]
           /\ last_done' = [last_done EXCEPT ![cb.output_widget] =
                                [error |-> cb.error, llm_clean |-> cb.llm_clean]]
    /\ UNCHANGED <<configVars, additional_info, threads, http_requests, accepted>>

\* on_done, run by the event loop for the oldest callback self.after posted.
on_done ==
    /\ after_queue # <<>>
    /\ LET cb == Head(after_queue)
       IN  /\ IF cb.error \notin {"None", ""}
              THEN dialog' = "Erro ao chamar LLM" /\ UNCHANGED output
              ELSE output' = [output EXCEPT ![cb.output_widget] = cb.llm_clean]
                   /\ UNCHANGED dialog
           /\ _set_busy(FALSE, "Pronto.")
           /\ _llm_running' = FALSE
           /\ after_queue' = Tail(after_queue)
           /\ delivered' = [delivered EXCEPT ![cb.id] = @ + 1]
           /\ last_done' = [last_done EXCEPT ![cb.output_widget] =
                                [error |-> cb.error, llm_clean |-> cb.llm_clean]]
    /\ UNCHANGED <<configVars, additional_info, threads, http_requests, accepted>>

\* ------------------------------------------------------------------ the worker thread
\* self.after(0, on_done), after which the thread ends.
PostOnDone(t, result) ==
    /\ after_queue' = Append(after_queue,
            [id |-> t.id, output_widget |-> t.output_widget,
             error |-> result.error, llm_clean |-> result.llm_clean])
    /\ threads' = threads \ {t}

\* The JSON body of the request: the model and the one user message.
Payload(model_name, prompt) == <<model_name, prompt>>

\* Mutant: the request is sent before the API key is looked at.
worker_call_posts_before_key_check(t) ==
    /\ t.pc = "start"
    /\ http_requests' = http_requests + 1
    /\ IF ~api_key
       THEN PostOnDone(t, [error |-> ErrConfig, llm_clean |-> <<>>])
       ELSE /\ threads' = (threads \ {t}) \cup
                    {[t EXCEPT !.pc = "waiting", !.payload = Payload(t.model_name, t.prompt)]}
            /\ UNCHANGED after_queue
    /\ UNCHANGED <<configVars, additional_info, _llm_running, buttons, status_var, output,
                   dialog, historyVars>>

\* Mutant: the worker reads self.additional_info when it sends the request
\* and adds it to the prompt then.
worker_call_live_info(t) ==
    /\ t.pc = "start"
    /\ IF ~api_key
       THEN /\ PostOnDone(t, [error |-> ErrConfig, llm_clean |-> <<>>])
            /\ UNCHANGED http_requests
       ELSE /\ threads' = (threads \ {t}) \cup
                    {[t EXCEPT !.pc = "waiting",
                               !.payload = Payload(t.model_name, t.prompt \o additional_info)]}
            /\ http_requests' = http_requests + 1
            /\ UNCHANGED after_queue
    /\ UNCHANGED <<configVars, additional_info, _llm_running, buttons, status_var, output,
                   dialog, historyVars>>

\* worker up to the blocking request of _call_llm: without an API key
\* _call_llm raises before any request, otherwise requests.post is sent with
\* the model and the prompt the worker was started with.
worker_call(t) ==
    /\ t.pc = "start"
    /\ IF ~api_key
       THEN /\ PostOnDone(t, [error |-> ErrConfig, llm_clean |-> <<>>])
            /\ UNCHANGED http_requests
       ELSE /\ threads' = (threads \ {t}) \cup
                    {[t EXCEPT !.pc = "waiting", !.payload = Payload(t.model_name, t.prompt)]}
            /\ http_requests' = http_requests + 1
            /\ UNCHANGED after_queue
    /\ UNCHANGED <<configVars, additional_info, _llm_running, buttons, status_var, output,
                   dialog, historyVars>>

\* Mutant: an exception of the request ends the thread without on_done.
worker_reply_drops_error(t, reply) ==
    /\ t.pc = "waiting"
    /\ IF reply.kind = "ok"
       THEN PostOnDone(t, WorkerResult(reply, t.tag_name))
       ELSE threads' = threads \ {t} /\ UNCHANGED after_queue
    /\ UNCHANGED <<configVars, additional_info, _llm_running, buttons, status_var, output,
                   dialog, http_requests, historyVars>>

\* Mutant: after an exception of the request the worker sends it again.
worker_reply_retries(t, reply) ==
    /\ t.pc = "waiting"
    /\ IF reply.kind = "network"
       THEN /\ threads' = (threads \ {t}) \cup {[t EXCEPT !.pc = "start", !.payload = <<>>]}
            /\ UNCHANGED after_queue
       ELSE PostOnDone(t, WorkerResult(reply, t.tag_name))
    /\ UNCHANGED <<configVars, additional_info, _llm_running, buttons, status_var, output,
                   dialog, http_requests, historyVars>>

\* Mutant: the worker clears the busy flag itself when it posts on_done.
worker_reply_clears_flag(t, reply) ==
    /\ t.pc = "waiting"
    /\ PostOnDone(t, WorkerResult(reply, t.tag_name))
    /\ _llm_running' = FALSE
    /\ UNCHANGED <<configVars, additional_info, buttons, status_var, output,
                   dialog, http_requests, historyVars>>

\* worker from the end of the request on: the reply is read, the tag content
\* extracted (or the exception caught) and on_done posted.
worker_reply(t, reply) ==
    /\ t.pc = "waiting"
    /\ PostOnDone(t, WorkerResult(reply, t.tag_name))
    /\ UNCHANGED <<configVars, additional_info, _llm_running, buttons, status_var, output,
                   dialog, http_requests, historyVars>>

\* ------------------------------------------------------------------ specification
PromptOff ==
    /\ p_phase = "off"
    /\ p_tab = "create"
    /\ p_skel = <<>>
    /\ p_vals = <<>>
    /\ p_built = <<>>
    /\ p_again = <<>>

ExtractOff ==
    /\ x_phase = "off"
    /\ x_tag = "card"
    /\ x_text = <<>>
    /\ x_out = <<>>

\* CardPromptApp.__init__ after main loaded the configuration and the
\* templates.  The constructor takes the templates and the models; the API
\* key is read from the environment by each _call_llm, so the window exists
\* with or without it.
AppInit ==
    /\ templates \in TemplateStores
    /\ models = [t \in Tabs |-> "model_" \o t]
    /\ prompts = [t \in Tabs |-> SkeletonFile(t)]
    /\ api_key \in BOOLEAN
    /\ additional_info = <<>>
    /\ _llm_running = FALSE
    /\ buttons = "normal"
    /\ status_var = "Pronto."
    /\ output = [t \in Tabs |-> <<>>]
    /\ dialog = "none"
    /\ threads = {}
    /\ after_queue = <<>>
    /\ http_requests = 0
    /\ accepted = 0
    /\ delivered = <<>>
    /\ last_done = [t \in Tabs |-> [error |-> "never", llm_clean |-> <<>>]]

\* No template file is being loaded on its own.
LoadOff ==
    /\ l_phase = "off"
    /\ l_exists = FALSE
    /\ l_items = <<>>
    /\ l_result = [error |-> "pending", templates |-> <<>>]

\* The names main reads from the environment.
KeyNames == <<"OPENROUTER_API_KEY", "API_KEY">>

ModelNames(tab) ==
    CASE tab = "info" -> <<"LLM_MODEL_VALIDATION", "MODELO_VALIDACAO_INFO">>
      [] tab = "create" -> <<"LLM_MODEL_CREATION", "MODELO_CRIACAO">>
      [] tab = "analyse" -> <<"LLM_MODEL_ANALYSIS", "MODELO_ANALISE">>

EnvNames == {KeyNames[1], KeyNames[2]} \cup UNION {{ModelNames(t)[1], ModelNames(t)[2]} : t \in Tabs}

\* main is not followed: the window is up.
StartOff ==
    /\ s_pc = "off"
    /\ s_env = [n \in EnvNames |-> "None"]
    /\ s_file = [exists |-> FALSE, text |-> <<>>]
    /\ s_prompt_files = FALSE
    /\ s_locals = [templates |-> <<>>, models |-> [t \in Tabs |-> "None"]]
    /\ s_window = "none"

Init == AppInit /\ PromptOff /\ ExtractOff /\ LoadOff /\ StartOff

GenerateInfo ==
    /\ \E c \in CardTypeInputs, u \in InputTexts : generate_info_validation_prompt(c, u)
    /\ UNCHANGED pureVars

GenerateCreate ==
    /\ \E c \in CardTypeInputs, u \in InputTexts : generate_creation_prompt(c, u)
    /\ UNCHANGED pureVars

GenerateAnalyse ==
    /\ \E c \in CardTypeInputs, u \in InputTexts : generate_analisys_prompt(c, u)
    /\ UNCHANGED pureVars

LoadInfo ==
    /\ \E pick \in FilePicks : load_additional_info(pick)
    /\ UNCHANGED pureVars

OnDone == on_done /\ UNCHANGED pureVars

WorkerCall ==
    /\ \E t \in threads : worker_call(t)
    /\ UNCHANGED pureVars

WorkerReply ==
    /\ \E t \in threads : \E reply \in Replies(t.tag_name) : worker_reply(t, reply)
    /\ UNCHANGED pureVars

Next ==
    \/ GenerateInfo
    \/ GenerateCreate
    \/ GenerateAnalyse
    \/ LoadInfo
    \/ OnDone
    \/ WorkerCall
    \/ WorkerReply

Spec == Init /\ [][Next]_vars

\* The worker thread runs to its end (the request is bounded by its timeout)
\* and the Tk event loop runs every callback posted with after.
LiveSpec == Spec /\ WF_vars(WorkerCall) /\ WF_vars(WorkerReply) /\ WF_vars(OnDone)

\* ------------------------------------------------------------------ prompt building on its own
\* The pieces a skeleton is made of: the workflow's three placeholder tokens,
\* a lone brace, a placeholder name without braces.
PromptPieces(tab) ==
    {TokCardModelo, SecondToken(tab), TokAdicionais, <<"{">>, <<"}">>,
     <<"informacoes_adicionais">>}

RECURSIVE Flatten(_)
Flatten(pieces) == IF pieces = <<>> THEN <<>> ELSE Head(pieces) \o Flatten(Tail(pieces))

\* The skeletons of at most MaxPieces pieces.
Skeletons(tab) ==
    {Flatten(ps) : ps \in UNION {[1..k -> PromptPieces(tab)] : k \in 0..MaxPieces}}

\* The replacement values: plain text, empty text, a placeholder name, and
\* text that holds a token replaced later or earlier in the chain.
PromptValues(tab) ==
    [template : {<<"T">>, SecondToken(tab), <<"informacoes_adicionais">>},
     text : {<<>>, <<"u">>, TokAdicionais},
     info : {<<>>, <<"i">>, TokCardModelo}]

PromptInit ==
    /\ AppInit
    /\ api_key
    /\ templates[<<"bug">>] = <<"T">>
    /\ p_phase = "input"
    /\ p_tab \in Tabs
    /\ p_skel \in Skeletons(p_tab)
    /\ p_vals \in PromptValues(p_tab)
    /\ p_built = <<>>
    /\ p_again = <<>>
    /\ ExtractOff
    /\ LoadOff
    /\ StartOff

\* The three replacements of a handler on the skeleton.
PromptBuild ==
    /\ p_phase = "input"
    /\ p_built' = BuildPrompt(p_tab, p_skel, p_vals.template, p_vals.text, p_vals.info)
    /\ p_phase' = "built"
    /\ UNCHANGED <<appVars, p_tab, p_skel, p_vals, p_again, extractVars, loadVars, startVars>>

\* The same replacements on the prompt they gave.
PromptRebuild ==
    /\ p_phase = "built"
    /\ p_again' = BuildPrompt(p_tab, p_built, p_vals.template, p_vals.text, p_vals.info)
    /\ p_phase' = "again"
    /\ UNCHANGED <<appVars, p_tab, p_skel, p_vals, p_built, extractVars, loadVars, startVars>>

PromptNext == PromptBuild \/ PromptRebuild

PromptSpec == PromptInit /\ [][PromptNext]_vars

\* ------------------------------------------------------------------ tag extraction on its own
\* The window as the functions checked on their own leave it: one template,
\* the API key set.
QuietApp == AppInit /\ api_key /\ templates[<<"bug">>] = <<"T">>

\* The pieces a reply text is made of: the opening and the closing tag, plain
\* and written in upper case with whitespace inside, a letter, a blank, and
\* the parts of a tag on their own.
ExtractPieces(tag_name) ==
    {<<"<", tag_name, ">">>, <<"<", " ", UpperCase(tag_name), "\n", ">">>,
     <<"</", tag_name, ">">>, <<"</", " ", UpperCase(tag_name), " ", ">">>,
     <<"x">>, <<" ">>, <<"<">>, <<tag_name>>, <<">">>}

\* The reply texts of at most MaxTextPieces pieces.
ReplyTexts(tag_name) ==
    {Flatten(ps) : ps \in UNION {[1..k -> ExtractPieces(tag_name)] : k \in 0..MaxTextPieces}}

ExtractInit ==
    /\ QuietApp
    /\ PromptOff
    /\ x_phase = "input"
    /\ x_tag \in {TagName(t) : t \in Tabs}
    /\ x_text \in ReplyTexts(x_tag)
    /\ x_out = <<>>
    /\ LoadOff
    /\ StartOff

\* One call of _extract_tag_content.
ExtractCall ==
    /\ x_phase = "input"
    /\ x_out' = _extract_tag_content(x_text, x_tag)
    /\ x_phase' = "done"
    /\ UNCHANGED <<appVars, promptVars, x_tag, x_text, loadVars, startVars>>

ExtractNext == ExtractCall

ExtractSpec == ExtractInit /\ [][ExtractNext]_vars

\* ------------------------------------------------------------------ load_templates on its own
\* The items a template file is made of: a block <name>body</name>, a
\* separator between blocks, or a tag that stands alone.
TemplateNames == {<<"bug">>, <<"chore">>}

BlockBodies == {<<>>, <<" ", "x", "\n">>, <<"y">>}

FileItems ==
    {[kind |-> "block", name |-> n, body |-> b] : n \in TemplateNames, b \in BlockBodies}
    \cup {[kind |-> "sep", name |-> <<>>, body |-> b] : b \in {<<"\n">>, <<"x">>}}
    \cup {[kind |-> k, name |-> <<"bug">>, body |-> <<>>] : k \in {"opening", "closing"}}

\* The text of an item.
ItemText(item) ==
    CASE item.kind = "block" ->
            <<"<">> \o item.name \o <<">">> \o item.body \o <<"</">> \o item.name \o <<">">>
      [] item.kind = "sep" -> item.body
      [] item.kind = "opening" -> <<"<">> \o item.name \o <<">">>
      [] item.kind = "closing" -> <<"</">> \o item.name \o <<">">>

\* The text of a file.
FileText(items) == Flatten([k \in 1..Len(items) |-> ItemText(items[k])])

LoadInit ==
    /\ QuietApp
    /\ PromptOff
    /\ ExtractOff
    /\ l_phase = "input"
    /\ l_exists \in BOOLEAN
    /\ l_items \in UNION {[1..k -> FileItems] : k \in 0..MaxItems}
    /\ l_exists = FALSE => l_items = <<>>
    /\ l_result = [error |-> "pending", templates |-> <<>>]
    /\ StartOff

\* One call of load_templates.
LoadCall ==
    /\ l_phase = "input"
    /\ l_result' = load_templates(l_exists, FileText(l_items))
    /\ l_phase' = "done"
    /\ UNCHANGED <<appVars, promptVars, extractVars, l_exists, l_items, startVars>>

LoadNext == LoadCall

LoadSpec == LoadInit /\ [][LoadNext]_vars

\* ------------------------------------------------------------------ startup
\* The primary names, read first.
PrimaryNames == {KeyNames[1]} \cup {ModelNames(t)[1] : t \in Tabs}

\* What os.getenv gives for a name: None for a name not set, the empty
\* string, or a value, one for the primary names and one for the aliases.
EnvValues(name) == {"None", "", IF name \in PrimaryNames THEN "p" ELSE "a"}

\* The environments load_dotenv can leave.
Environments ==
    {e \in [EnvNames -> {"None", "", "p", "a"}] : \A n \in EnvNames : e[n] \in EnvValues(n)}

\* The templates file: missing, without a block, with a block.
StartFiles ==
    {[exists |-> FALSE, text |-> <<>>], [exists |-> TRUE, text |-> <<"x", "\n">>],
     [exists |-> TRUE, text |-> <<"<", "bug", ">", "T", "\n", "</", "bug", ">">>]}

\* Python's truth of a value of os.getenv.
Truthy(v) == v \notin {"None", ""}

\* os.getenv(primary) or os.getenv(alias)
GetEnvOr(env, names) == IF Truthy(env[names[1]]) THEN env[names[1]] ELSE env[names[2]]

\* The state before main: nothing constructed, no window.
StartInit ==
    /\ templates = <<>>
    /\ models = [t \in Tabs |-> "None"]
    /\ prompts = [t \in Tabs |-> <<>>]
    /\ api_key = FALSE
    /\ additional_info = <<>>
    /\ _llm_running = FALSE
    /\ buttons = "normal"
    /\ status_var = "Pronto."
    /\ output = [t \in Tabs |-> <<>>]
    /\ dialog = "none"
    /\ threads = {}
    /\ after_queue = <<>>
    /\ http_requests = 0
    /\ accepted = 0
    /\ delivered = <<>>
    /\ last_done = [t \in Tabs |-> [error |-> "never", llm_clean |-> <<>>]]
    /\ PromptOff
    /\ ExtractOff
    /\ LoadOff
    /\ s_pc = "main"
    /\ s_env \in Environments
    /\ s_file \in StartFiles
    /\ s_prompt_files \in BOOLEAN
    /\ s_locals = [templates |-> <<>>, models |-> [t \in Tabs |-> "None"]]
    /\ s_window = "none"

\* The except branch of main: a hidden root, the error box, return. The
\* window of CardPromptApp is not constructed.
StartFail ==
    /\ dialog' = "Erro ao carregar arquivos"
    /\ s_pc' = "returned"
    /\ UNCHANGED s_locals

\* Mutant: the test of the models leaves out the analysis model.
main_try_skips_analysis_model ==
    /\ s_pc = "main"
    /\ LET key == GetEnvOr(s_env, KeyNames)
           chosen == [t \in Tabs |-> GetEnvOr(s_env, ModelNames(t))]
           loaded == load_templates(s_file.exists, s_file.text)
       IN  IF ~Truthy(key) THEN StartFail
           ELSE IF ~(Truthy(chosen["info"]) /\ Truthy(chosen["create"])) THEN StartFail
           ELSE IF loaded.error # "None" THEN StartFail
           ELSE /\ s_locals' = [templates |-> loaded.templates, models |-> chosen]
                /\ s_pc' = "construct"
                /\ UNCHANGED dialog
    /\ UNCHANGED <<configVars, additional_info, _llm_running, buttons, status_var, output,
                   threads, after_queue, http_requests, historyVars>>
    /\ UNCHANGED <<s_env, s_file, s_prompt_files, s_window>>

\* The try statement of main: the key, the three models, the templates; any
\* exception ends in the except branch.
main_try ==
    /\ s_pc = "main"
    /\ LET key == GetEnvOr(s_env, KeyNames)
           chosen == [t \in Tabs |-> GetEnvOr(s_env, ModelNames(t))]
           loaded == load_templates(s_file.exists, s_file.text)
       IN  IF ~Truthy(key) THEN StartFail
           ELSE IF ~(\A t \in Tabs : Truthy(chosen[t])) THEN StartFail
           ELSE IF loaded.error # "None" THEN StartFail
           ELSE /\ s_locals' = [templates |-> loaded.templates, models |-> chosen]
                /\ s_pc' = "construct"
                /\ UNCHANGED dialog
    /\ UNCHANGED <<configVars, additional_info, _llm_running, buttons, status_var, output,
                   threads, after_queue, http_requests, historyVars>>
    /\ UNCHANGED <<s_env, s_file, s_prompt_files, s_window>>

\* CardPromptApp(...) in main: tk.Tk.__init__ creates the window, the
\* fields are set and the prompt files read; a missing prompt file raises
\* out of main, and the object under construction is dropped with it.
CardPromptApp_init ==
    /\ s_pc = "construct"
    /\ s_window' = "created"
    /\ IF ~s_prompt_files
       THEN /\ s_pc' = "crashed"
            /\ UNCHANGED configVars
       ELSE /\ templates' = s_locals.templates
            /\ models' = s_locals.models
            /\ prompts' = [t \in Tabs |-> SkeletonFile(t)]
            /\ api_key' = Truthy(GetEnvOr(s_env, KeyNames))
            /\ s_pc' = "built"
    /\ UNCHANGED <<additional_info, _llm_running, buttons, status_var, output, dialog,
                   threads, after_queue, http_requests, historyVars>>
    /\ UNCHANGED <<s_env, s_file, s_prompt_files, s_locals>>

\* app.mainloop(): the event loop starts and the window is drawn.
mainloop ==
    /\ s_pc = "built"
    /\ s_pc' = "mainloop"
    /\ s_window' = "shown"
    /\ UNCHANGED <<appVars, s_env, s_file, s_prompt_files, s_locals>>

MainTry == main_try /\ UNCHANGED <<promptVars, extractVars, loadVars>>

Construct == CardPromptApp_init /\ UNCHANGED <<promptVars, extractVars, loadVars>>

MainLoop == mainloop /\ UNCHANGED <<promptVars, extractVars, loadVars>>

StartNext ==
    \/ MainTry
    \/ Construct
    \/ MainLoop

StartSpec == StartInit /\ [][StartNext]_vars

\* ------------------------------------------------------------------ claims
\* Calls between acceptance and the end of their on_done.
InFlight == Cardinality(threads) + Len(after_queue)

\* The tabs with a call between acceptance and the end of its on_done.
InFlightTabs ==
    {t.output_widget : t \in threads} \cup
    {after_queue[i].output_widget : i \in 1..Len(after_queue)}

\* C1: at most one LLM call is in flight at any time (worker threads alive
\* plus completions not yet delivered), and a submission is accepted only
\* in a state where the busy flag is false.
C1_AtMostOneInFlight ==
    [](InFlight <= 1) /\ [][accepted' # accepted => ~_llm_running]_vars

\* A second call is in flight after the first one ended, and a generate
\* action was answered with the busy notice on the way.
C1_Witness == InFlight = 1 /\ accepted = 2 /\ dialog = "Aguarde"

\* A call of _run_llm_async from one of the three handlers, with the model,
\* the tag, the output area and the busy message that handler passes.
SubmitCall ==
    \E tab \in Tabs, u \in InputTexts :
        _run_llm_async(BuildPrompt(tab, prompts[tab], <<"T">>, Strip(u), additional_info),
                       models[tab], TagName(tab), tab, BusyMessage(tab))

\* C2: a call of _run_llm_async made while a call is in flight shows the
\* busy notice and changes nothing else: no thread, no request, no output
\* area, no posted callback, the flag still set.
C2_BusySubmissionOnlyNotifies ==
    [][(_llm_running /\ SubmitCall) =>
            /\ dialog' = "Aguarde"
            /\ UNCHANGED <<configVars, additional_info, _llm_running, buttons, status_var,
                           output, threads, after_queue, http_requests, historyVars>>]_vars

\* The only accepted call got the busy notice on the way and then delivered
\* its result to its output area.
C2_Witness ==
    /\ dialog = "Aguarde"
    /\ delivered = <<1>>
    /\ ~_llm_running
    /\ \E t \in Tabs : output[t] # <<>> /\ last_done[t].llm_clean = output[t]

\* C3: every accepted submission is in exactly one of three places: its
\* worker thread is alive, its on_done is posted once and not yet run, or its
\* on_done has run exactly once; at most one on_done is pending; and under
\* fair scheduling every accepted submission's on_done does run.
Places(i) ==
    Cardinality({t \in threads : t.id = i})
    + Cardinality({k \in 1..Len(after_queue) : after_queue[k].id = i})
    + delivered[i]

C3_ExactlyOnceState ==
    /\ Len(delivered) = accepted
    /\ \A i \in 1..accepted : Places(i) = 1
    /\ \A t \in threads : t.id \in 1..accepted
    /\ \A k \in 1..Len(after_queue) : after_queue[k].id \in 1..accepted
    /\ Len(after_queue) <= 1

C3_OnDoneExactlyOnce ==
    /\ []C3_ExactlyOnceState
    /\ \A i \in 1..MaxSubmits :
            [](accepted >= i => <>(Len(delivered) >= i /\ delivered[i] = 1))

\* Two submissions were accepted and each had its on_done run once, one with
\* a result and one with an error.
C3_Witness ==
    /\ delivered = <<1, 1>>
    /\ \E t, u \in Tabs : last_done[t].error = "None" /\ last_done[u].error = ErrNetwork

\* C4: a busy state is always followed by an idle one (flag cleared, buttons
\* enabled, status "Pronto."), whatever the outcome of the call.
Idle == ~_llm_running /\ buttons = "normal" /\ status_var = "Pronto."

C4_BusyLeadsToIdle == [](_llm_running => <>Idle) /\ [](~_llm_running => Idle)

\* After a call that failed, a fresh submission was accepted.
C4_Witness ==
    /\ accepted = 2
    /\ _llm_running
    /\ \E t \in Tabs : last_done[t].error \in {ErrConfig, ErrNetwork, ErrProtocol}

\* C5 as the specification states it: the output area of a tab shows the
\* result of the tab's most recently completed call, also while a newer call
\* from the tab is in flight.
C5_OutputIsLastCompleted ==
    \A t \in Tabs : last_done[t].error = "None" => output[t] = last_done[t].llm_clean

\* C5 as the code has it: the output area of a tab shows the result of the
\* tab's most recently completed call when that call succeeded and no newer
\* call from the tab was accepted since; it is empty otherwise.
C5_OutputIsLastCompletedOrEmpty ==
    \A t \in Tabs :
        output[t] = IF last_done[t].error = "None" /\ t \notin InFlightTabs
                    THEN last_done[t].llm_clean
                    ELSE <<>>

\* A tab whose last completed call gave a result has a newer call in flight.
C5_Witness ==
    \E t \in InFlightTabs : last_done[t].error = "None" /\ last_done[t].llm_clean # <<>>

\* The tab whose handler or whose on_done a step runs.
StepTab ==
    IF accepted' # accepted
    THEN (CHOOSE t \in threads' \ threads : TRUE).output_widget
    ELSE Head(after_queue).output_widget

\* C6: a step that accepts a submission or runs on_done changes no output
\* area but its own tab's, and leaves the templates, the models, the
\* skeletons, the API key and the additional info as they were.
C6_OnlyOwnOutputChanges ==
    [][(accepted' # accepted \/ Len(after_queue') < Len(after_queue)) =>
            /\ \A u \in Tabs \ {StepTab} : output'[u] = output[u]
            /\ UNCHANGED <<configVars, additional_info>>]_vars

\* Two tabs show the results of their own calls, with additional info loaded.
C6_Witness ==
    /\ additional_info # <<>>
    /\ \E t, u \in Tabs : t # u /\ output[t] = <<"x">> /\ output[u] = <<"z">>

\* C7 as the specification states it: a generate action with no type
\* selected, or with a type the store does not hold, shows a notice and
\* changes nothing else; with a selected type that the store holds it goes on
\* to _run_llm_async (accepted, or the busy notice), whatever the template's
\* body.
C7_RefusedIffNoTemplate ==
    [][\A tab \in Tabs, c \in CardTypeInputs, u \in InputTexts :
            Generate(tab, c, u) =>
                IF Strip(c) = <<>> \/ Strip(c) \notin DOMAIN templates
                THEN /\ dialog' \in {"Tipo nao selecionado", "Template nao encontrado"}
                     /\ UNCHANGED <<configVars, additional_info, _llm_running, buttons,
                                    status_var, output, threads, after_queue,
                                    http_requests, historyVars>>
                ELSE \/ accepted' = accepted + 1
                     \/ _llm_running /\ dialog' = "Aguarde"]_vars

\* C8: the flag is set exactly by the steps that accept a submission and
\* cleared exactly by on_done steps; a step of the worker thread changes
\* neither the flag nor an output area; and the flag is true whenever a
\* worker is alive or a completion is undelivered.
C8_FlagOnlyOnUIThread ==
    /\ [](InFlight > 0 => _llm_running)
    /\ [][/\ (~_llm_running /\ _llm_running') => accepted' = accepted + 1
          /\ (_llm_running /\ ~_llm_running') => Len(after_queue') < Len(after_queue)
          /\ (threads' # threads /\ accepted' = accepted) =>
                UNCHANGED <<_llm_running, output, buttons, status_var>>]_vars

\* A worker has ended and its completion is not delivered yet.
C8_Witness == threads = {} /\ Len(after_queue) = 1 /\ _llm_running

\* s holds sub as a contiguous part.
Contains(s, sub) ==
    \E i \in 0..(Len(s) - Len(sub)) : SubSeq(s, i + 1, i + Len(sub)) = sub

WorkflowTokens(tab) == {TokCardModelo, SecondToken(tab), TokAdicionais}

\* The value a workflow substitutes for a token.
ValueOf(tab, tok, vals) ==
    IF tok = TokCardModelo THEN vals.template
    ELSE IF tok = TokAdicionais THEN vals.info
    ELSE vals.text

NoTokenLeft(s, tab) == \A tok \in WorkflowTokens(tab) : ~Contains(s, tok)

NoBrace(s) == \A i \in 1..Len(s) : s[i] \notin {"{", "}"}

\* Every brace of s delimits an occurrence of one of the workflow's tokens.
BracesOnlyInTokens(s, tab) ==
    \A i \in 1..Len(s) :
        /\ s[i] = "{" => (i + 2 <= Len(s) /\ SubSeq(s, i, i + 2) \in WorkflowTokens(tab))
        /\ s[i] = "}" => (i >= 3 /\ SubSeq(s, i - 2, i) \in WorkflowTokens(tab))

\* C9 as the specification states it: for a skeleton that holds the three
\* tokens and any values, the prompt holds no token of the set, holds every
\* value verbatim, and building again from it changes nothing.
C9_AnyValuesNoTokenLeft ==
    (p_phase \in {"built", "again"}
     /\ \A tok \in WorkflowTokens(p_tab) : Contains(p_skel, tok)) =>
        /\ NoTokenLeft(p_built, p_tab)
        /\ \A tok \in WorkflowTokens(p_tab) : Contains(p_built, ValueOf(p_tab, tok, p_vals))
        /\ p_phase = "again" => p_again = p_built

\* C9 as the code has it: when the braces of the skeleton are only those of
\* the workflow's tokens and no value holds a brace, the prompt holds no
\* token of the set, holds verbatim the value of every token the skeleton
\* holds, and building again from it changes nothing.
C9_BraceFreeValuesNoTokenLeft ==
    (/\ p_phase \in {"built", "again"}
     /\ BracesOnlyInTokens(p_skel, p_tab)
     /\ NoBrace(p_vals.template) /\ NoBrace(p_vals.text) /\ NoBrace(p_vals.info)) =>
        /\ NoTokenLeft(p_built, p_tab)
        /\ \A tok \in WorkflowTokens(p_tab) :
                Contains(p_skel, tok) => Contains(p_built, ValueOf(p_tab, tok, p_vals))
        /\ p_phase = "again" => p_again = p_built

\* A skeleton of the three tokens was built with non-empty brace-free values
\* and built again.
C9_Witness ==
    /\ p_phase = "again"
    /\ \A tok \in WorkflowTokens(p_tab) : Contains(p_skel, tok)
    /\ BracesOnlyInTokens(p_skel, p_tab)
    /\ p_vals.template = <<"informacoes_adicionais">>
    /\ p_vals.text = <<"u">>
    /\ p_vals.info = <<"i">>

\* One pass over the skeleton: a token is replaced where it stands in the
\* skeleton and what is inserted is not looked at again.
RECURSIVE SubstituteOnce(_, _, _)
SubstituteOnce(s, tab, vals) ==
    IF s = <<>> THEN <<>>
    ELSE IF Len(s) >= 3 /\ SubSeq(s, 1, 3) \in WorkflowTokens(tab)
         THEN ValueOf(tab, SubSeq(s, 1, 3), vals)
              \o SubstituteOnce(SubSeq(s, 4, Len(s)), tab, vals)
         ELSE <<Head(s)>> \o SubstituteOnce(Tail(s), tab, vals)

\* The chained replacements made in the order first, second, third.
ReplaceInOrder(s, tab, vals, order) ==
    Replace(Replace(Replace(s, order[1], ValueOf(tab, order[1], vals)),
                    order[2], ValueOf(tab, order[2], vals)),
            order[3], ValueOf(tab, order[3], vals))

TokenOrders(tab) ==
    {o \in [1..3 -> WorkflowTokens(tab)] : \A i, j \in 1..3 : i # j => o[i] # o[j]}

\* C10 as the specification states it: the prompt is the single-pass
\* substitution of the skeleton, a value that holds a token is inserted
\* verbatim, and every order of the three replacements gives the same prompt.
C10_SinglePassAnyOrder ==
    p_phase \in {"built", "again"} =>
        /\ p_built = SubstituteOnce(p_skel, p_tab, p_vals)
        /\ \A o \in TokenOrders(p_tab) : ReplaceInOrder(p_skel, p_tab, p_vals, o) = p_built

\* The positions of text where an opening tag starts.
OpeningTags(text, tag_name) == {i \in 1..Len(text) : MatchTag(text, i, "<", tag_name) # 0}

\* The positions from position from on where a closing tag starts.
ClosingTagsFrom(text, tag_name, from) ==
    {j \in from..Len(text) : MatchTag(text, j, "</", tag_name) # 0}

\* The text holds an opening tag with a closing tag after it.
HasTagPair(text, tag_name) ==
    \E i \in OpeningTags(text, tag_name) :
        ClosingTagsFrom(text, tag_name, MatchTag(text, i, "<", tag_name)) # {}

\* The text between the first opening tag and the first closing tag after it.
FirstPairContent(text, tag_name) ==
    LET from == MatchTag(text, SetMin(OpeningTags(text, tag_name)), "<", tag_name)
    IN  SubSeq(text, from, SetMin(ClosingTagsFrom(text, tag_name, from)) - 1)

\* C11: _extract_tag_content always returns: the trimmed text between the
\* first opening tag and the first closing tag after it when the text holds
\* such a pair (in any letter case, whatever surrounds it), the trimmed text
\* itself otherwise.
C11_ExtractFirstPairOrText ==
    x_phase = "done" =>
        x_out = IF HasTagPair(x_text, x_tag)
                THEN Strip(FirstPairContent(x_text, x_tag))
                ELSE Strip(x_text)

\* A reply with an upper-case opening tag and two closing tags after it, the
\* first in upper case, gave the content up to the first of them.
C11_Witness ==
    /\ x_phase = "done"
    /\ x_text = <<"<", " ", UpperCase(x_tag), "\n", ">", "x",
                  "</", " ", UpperCase(x_tag), " ", ">", "</", x_tag, ">">>
    /\ x_out = <<"x">>

\* A reply without a pair gave its trimmed text.
C11_WitnessNoPair ==
    /\ x_phase = "done"
    /\ x_text = <<" ", "<", x_tag, ">", "x", " ">>
    /\ x_out = <<"<", x_tag, ">", "x">>

\* C12: without an API key _call_llm raises the configuration error before
\* any HTTP request: no request is ever sent, no worker waits for a reply,
\* and every call's outcome, pending or delivered, is that failure.
C12_NoKeyNoRequest ==
    ~api_key =>
        /\ http_requests = 0
        /\ \A t \in threads : t.pc = "start" /\ t.payload = <<>>
        /\ \A k \in 1..Len(after_queue) : after_queue[k].error = ErrConfig
        /\ \A tab \in Tabs : last_done[tab].error \in {"never", ErrConfig}
        /\ \A tab \in Tabs : output[tab] = <<>>

\* Without a key a call was made and its failure shown, with no request sent.
C12_Witness ==
    /\ ~api_key
    /\ delivered = <<1>>
    /\ \E tab \in Tabs : last_done[tab].error = ErrConfig
    /\ dialog = "Erro ao chamar LLM"
    /\ http_requests = 0

\* The submissions whose worker has not reached the request yet.
NotYetCalled == {t \in threads : t.pc = "start"}

\* C13: an accepted submission makes at most one HTTP request and has
\* exactly one outcome, with no retry: the requests sent never outnumber the
\* submissions whose worker has reached the request, a request is sent only
\* by a worker passing from its start to its wait, one at a time, and every
\* accepted submission is in one place, running, pending or delivered once.
C13_OneRequestPerSubmission ==
    /\ [](http_requests + Cardinality(NotYetCalled) <= accepted)
    /\ [](\A i \in 1..accepted : Places(i) = 1)
    /\ [][http_requests' # http_requests =>
            /\ http_requests' = http_requests + 1
            /\ accepted' = accepted
            /\ \E t \in NotYetCalled :
                    /\ t \notin threads'
                    /\ \E u \in threads' : u.id = t.id /\ u.pc = "waiting"]_vars

\* Two submissions were accepted and delivered, the first after a failed
\* request, and two requests were sent.
C13_Witness ==
    /\ api_key
    /\ delivered = <<1, 1>>
    /\ http_requests = 2
    /\ \E tab \in Tabs : last_done[tab].error = ErrNetwork

\* The positions of the blocks of the file.
BlocksOf(items) == {k \in 1..Len(items) : items[k].kind = "block"}

\* The file is made of well-formed blocks, with separators between them.
WellFormedFile(items) == \A k \in 1..Len(items) : items[k].kind \in {"block", "sep"}

\* The position of the last block of a name.
LastBlock(items, name) ==
    CHOOSE k \in BlocksOf(items) :
        /\ items[k].name = name
        /\ \A j \in BlocksOf(items) : items[j].name = name => j <= k

\* C15: for a file of well-formed blocks load_templates returns the
\* dictionary whose keys are the names of the blocks and whose value for a
\* name is the trimmed body of the last block of that name; a file without a
\* block raises an error, and no call returns an empty dictionary.
C15_LastBlockWins ==
    l_phase = "done" =>
        /\ (l_exists /\ WellFormedFile(l_items) /\ BlocksOf(l_items) # {}) =>
                /\ l_result.error = "None"
                /\ DOMAIN l_result.templates = {l_items[k].name : k \in BlocksOf(l_items)}
                /\ \A n \in DOMAIN l_result.templates :
                        l_result.templates[n] = Strip(l_items[LastBlock(l_items, n)].body)
        /\ (l_exists /\ WellFormedFile(l_items) /\ BlocksOf(l_items) = {}) =>
                l_result.error = "ValueError"
        /\ l_result.error = "None" <=> DOMAIN l_result.templates # {}

\* A file with two blocks of one name around a block of another gave the
\* trimmed body of the later block for the repeated name.
C15_Witness ==
    /\ l_phase = "done"
    /\ l_items = <<[kind |-> "block", name |-> <<"bug">>, body |-> <<"y">>],
                   [kind |-> "block", name |-> <<"chore">>, body |-> <<>>],
                   [kind |-> "block", name |-> <<"bug">>, body |-> <<" ", "x", "\n">>]>>
    /\ l_result.error = "None"
    /\ l_result.templates[<<"bug">>] = <<"x">>
    /\ l_result.templates[<<"chore">>] = <<>>

\* A file of separators only raised the error.
C15_WitnessNoBlock ==
    /\ l_phase = "done"
    /\ l_exists
    /\ l_items = <<[kind |-> "sep", name |-> <<>>, body |-> <<"x">>]>>
    /\ l_result.error = "ValueError"

\* A setting is present when its primary name or its alias has a value.
Configured(names) == Truthy(s_env[names[1]]) \/ Truthy(s_env[names[2]])

\* The key, the three models and at least one template are there.
AllLoaded ==
    /\ Configured(KeyNames)
    /\ \A t \in Tabs : Configured(ModelNames(t))
    /\ load_templates(s_file.exists, s_file.text).error = "None"

\* C14: startup is all-or-nothing. With the key or a model absent under
\* both names, or no template in the templates file, main ends after the
\* error box and the window is never created; the window is created and
\* shown only with all of them loaded, and then holds the loaded values.
C14_StartupAllOrNothing ==
    /\ ~AllLoaded =>
            /\ s_window = "none"
            /\ s_pc \in {"main", "returned"}
            /\ s_pc = "returned" => dialog = "Erro ao carregar arquivos"
    /\ s_pc = "returned" => ~AllLoaded
    /\ s_window # "none" => AllLoaded /\ dialog = "none"
    /\ s_window = "shown" =>
            /\ templates = load_templates(s_file.exists, s_file.text).templates
            /\ \A t \in Tabs :
                    /\ Truthy(models[t])
                    /\ models[t] \in {s_env[ModelNames(t)[1]], s_env[ModelNames(t)[2]]}
                    /\ Truthy(s_env[ModelNames(t)[1]]) => models[t] = s_env[ModelNames(t)[1]]
            /\ api_key

\* With the key under its alias only and the analysis model under neither
\* name, main ended after the error box, without a window.
C14_Witness ==
    /\ s_pc = "returned"
    /\ s_env["OPENROUTER_API_KEY"] = "None" /\ Truthy(s_env["API_KEY"])
    /\ Configured(ModelNames("info")) /\ Configured(ModelNames("create"))
    /\ s_env["LLM_MODEL_ANALYSIS"] = "None" /\ s_env["MODELO_ANALISE"] = "None"
    /\ s_file.exists /\ s_file.text # <<"x", "\n">>
    /\ dialog = "Erro ao carregar arquivos"
    /\ s_window = "none"

\* With everything loaded, models under alias names, the window is shown.
C14_WitnessShown ==
    /\ s_window = "shown"
    /\ \A t \in Tabs : ~Truthy(s_env[ModelNames(t)[1]])
    /\ templates \in TemplateStores

\* The submission a generate handler hands to a worker when it is accepted
\* from a tab with a card type and an input text: the prompt built from the
\* additional info of that moment, the tab's model, tag and output area.
Snapshot(id, tab, card_type, text) ==
    [id |-> id, output_widget |-> tab,
     prompt |-> BuildPrompt(tab, prompts[tab],
                    _get_template_for_type(templates, Strip(card_type)).value,
                    Strip(text), additional_info),
     model_name |-> models[tab], tag_name |-> TagName(tab), pc |-> "start", payload |-> <<>>]

\* A running submission keeps its prompt, model, tag and output area over
\* the step, sends them and nothing else when it sends its request, and
\* hands its output area to its on_done.
SnapshotKept(t) ==
    \/ \E u \in threads' :
            /\ u.id = t.id
            /\ u.prompt = t.prompt /\ u.model_name = t.model_name
            /\ u.tag_name = t.tag_name /\ u.output_widget = t.output_widget
            /\ u.payload = IF u.pc = "waiting" THEN Payload(t.model_name, t.prompt) ELSE <<>>
            /\ t.pc = "waiting" => u = t
    \/ \E k \in 1..Len(after_queue') :
            after_queue'[k].id = t.id /\ after_queue'[k].output_widget = t.output_widget

\* A pending on_done stays as it is, or runs and writes its result to the
\* output area of its submission, and to no other.
CallbackKept(k) ==
    \/ \E j \in 1..Len(after_queue') : after_queue'[j] = after_queue[k]
    \/ /\ delivered'[after_queue[k].id] = delivered[after_queue[k].id] + 1
       /\ after_queue[k].error = "None" =>
                output'[after_queue[k].output_widget] = after_queue[k].llm_clean
       /\ \A tab \in Tabs \ {after_queue[k].output_widget} : output'[tab] = output[tab]

\* C16: a submission is a snapshot taken when it is accepted. Whatever
\* steps interleave (a new additional-info file, a handler run with another
\* input text or card type, from the same or another tab), the request sent
\* is the model and prompt of the acceptance and the result goes to the
\* output area of the accepting tab.
C16_SubmissionIsSnapshot ==
    [][/\ \A t \in threads : SnapshotKept(t)
       /\ \A k \in 1..Len(after_queue) : CallbackKept(k)
       /\ \A u \in threads' :
            (\A t \in threads : t.id # u.id) =>
                \E tab \in Tabs, c \in CardTypeInputs, text \in InputTexts :
                    u = Snapshot(accepted + 1, tab, c, text)]_vars

\* A request is out with the prompt of the acceptance, built without
\* additional info, after an additional-info file was loaded and another
\* submission was turned down.
C16_Witness ==
    /\ additional_info = <<"i">>
    /\ dialog = "Aguarde"
    /\ \E t \in threads :
            /\ t.pc = "waiting"
            /\ t.payload = Payload(t.model_name, t.prompt)
            /\ ~Contains(t.prompt, <<"i">>)

====
